---- MODULE Spec2Model ----
(***************************************************************************)
(* A model of implementation/generative_models/utils.py: the              *)
(* MinibatchDiscrimination layer (construction, build, call,              *)
(* compute_output_shape, get_config), clip_weights and split_data.        *)
(*                                                                         *)
(* Tensors are records [shape, at]: shape is the tuple of axis lengths,   *)
(* at maps every 0-based index tuple to the element.  Python's None is    *)
(* the empty tuple and a present value v is <<v>>.                        *)
(*                                                                         *)
(* Numbers are integers.  A kernelized value exp(-d) is kept exactly, as  *)
(* the bag holding d once, and a sum of such values is the bag sum: the   *)
(* numbers exp(-d), d an integer, are linearly independent over the       *)
(* rationals, so two such sums are equal as reals exactly when they are   *)
(* equal as bags.  1.0 = exp(-0) is the bag holding 0 once.               *)
(***************************************************************************)
EXTENDS Integers, Sequences, FiniteSets, Bags, TLC

VARIABLES
    phase,          \* "new" | "constructed" | "built" | "failed": the layer's life
    nb_kernels,     \* self.nb_kernels
    kernel_dim,     \* self.kernel_dim
    input_dim,      \* self.input_dim (None or a number)
    W_regularizer,  \* self.W_regularizer (None or a regularizer object)
    W_constraint,   \* self.W_constraint (None or a constraint object)
    input_spec,     \* the feature dimension self.input_spec demands (None: any)
    W,              \* self.W (None before build)
    x,              \* the InputBatch of the last forward invocation
    output,         \* what that invocation returned or raised
    activity_regularizer, \* self.activity_regularizer
    restored,       \* the layer rebuilt from get_config(), or the error raised
    layers,         \* clip_weights: model.layers, each layer its list of arrays
    before,         \* clip_weights: the weights before the last call
    clip_value,     \* clip_weights: the clip_value of the last call
    dataset,        \* split_data: the caller's array
    timesteps,      \* split_data: the timesteps argument
    stack,          \* split_data: the frames of the recursion, innermost last
    returned        \* split_data: what the outermost call returned or raised

layerVars == <<phase, nb_kernels, kernel_dim, input_dim, W_regularizer,
               W_constraint, activity_regularizer, input_spec, W, x, output,
               restored>>
clipVars == <<layers, before, clip_value>>
splitVars == <<dataset, timesteps, stack, returned>>
vars == <<layerVars, clipVars, splitVars>>

None == <<>>
Some(v) == <<v>>

-----------------------------------------------------------------------------
(* Bounds of the exploration. *)

\* Largest batch size N of an InputBatch.
MaxBatch == 2
\* Largest number of elements of a ProjectionWeights tensor.
MaxWSize == 4
\* Largest number of elements of an InputBatch.
MaxXSize == 6
\* Values an InputBatch element takes.
XVals == {0, 1, 3}
\* Values a ProjectionWeights element takes.
WVals == {-1, 0, 1}

-----------------------------------------------------------------------------
(* The tensor operations of the backend that call uses. *)

RECURSIVE SumTo(_, _, _)
SumTo(f, lo, hi) == IF hi < lo THEN 0 ELSE f[hi] + SumTo(f, lo, hi - 1)

RECURSIVE BagSumTo(_, _, _)
BagSumTo(f, lo, hi) == IF hi < lo THEN EmptyBag ELSE f[hi] (+) BagSumTo(f, lo, hi - 1)

RECURSIVE Product(_)
Product(s) == IF s = <<>> THEN 1 ELSE Head(s) * Product(Tail(s))

\* Every index tuple of a tensor of this shape: 0-based, one index per axis.
RECURSIVE Idx(_)
Idx(shape) ==
    IF shape = <<>> THEN {<<>>}
    ELSE {<<h>> \o t : h \in 0 .. (Head(shape) - 1), t \in Idx(Tail(shape))}

Tensor(shape, f(_)) == [shape |-> shape, at |-> [i \in Idx(shape) |-> f(i)]]

\* A tuple with position p (1-based) removed, and with v put in at position p.
Without(s, p) == [a \in 1 .. (Len(s) - 1) |-> IF a < p THEN s[a] ELSE s[a + 1]]
With(s, p, v) ==
    [a \in 1 .. (Len(s) + 1) |-> IF a < p THEN s[a] ELSE IF a = p THEN v ELSE s[a - 1]]

\* Row-major position of an index tuple.
RECURSIVE Flat(_, _)
Flat(i, shape) ==
    IF shape = <<>> THEN 0
    ELSE Head(i) * Product(Tail(shape)) + Flat(Tail(i), Tail(shape))

\* K.dot(a, b), a of rank 2 and b of rank 3: the last axis of a is contracted
\* with the next to last axis of b.
dot(a, b) ==
    Tensor(<<a.shape[1], b.shape[1], b.shape[3]>>,
           LAMBDA i : SumTo([d \in 0 .. (a.shape[2] - 1) |->
                                a.at[<<i[1], d>>] * b.at[<<i[2], d, i[3]>>]],
                            0, a.shape[2] - 1))

\* The index tuple at row-major position f.
RECURSIVE Unflat(_, _)
Unflat(f, shape) ==
    IF shape = <<>> THEN <<>>
    ELSE <<f \div Product(Tail(shape))>>
             \o Unflat(f % Product(Tail(shape)), Tail(shape))

\* K.reshape(t, (-1, k, c)): the elements in row-major order, the first axis
\* taking whatever length the element count leaves.
reshape(t, k, c) ==
    LET shape == <<Product(t.shape) \div (k * c), k, c>>
    IN  Tensor(shape, LAMBDA i : t.at[Unflat(Flat(i, shape), t.shape)])

\* K.expand_dims(t, axis): a new axis of length 1 at 0-based position axis.
expand_dims(t, axis) ==
    Tensor(With(t.shape, axis + 1, 1), LAMBDA i : t.at[Without(i, axis + 1)])

\* K.permute_dimensions(t, pattern): axis a of the result is axis pattern[a]
\* of t (0-based axes).
permute_dimensions(t, pattern) ==
    Tensor([a \in DOMAIN pattern |-> t.shape[pattern[a] + 1]],
           LAMBDA i : t.at[[b \in DOMAIN pattern |->
                               i[CHOOSE a \in DOMAIN pattern : pattern[a] + 1 = b]]])

\* Mutant of subtract: the two operands are added.
subtract_adds(a, b) ==
    LET shape == [p \in DOMAIN a.shape |->
                     IF a.shape[p] = 1 THEN b.shape[p] ELSE a.shape[p]]
        pick(i, s) == [p \in DOMAIN s |-> IF s[p] = 1 THEN 0 ELSE i[p]]
    IN  Tensor(shape, LAMBDA i : a.at[pick(i, a.shape)] + b.at[pick(i, b.shape)])

\* a - b with broadcasting: an axis of length 1 is stretched to the other's.
subtract(a, b) ==
    LET shape == [p \in DOMAIN a.shape |->
                     IF a.shape[p] = 1 THEN b.shape[p] ELSE a.shape[p]]
        pick(i, s) == [p \in DOMAIN s |-> IF s[p] = 1 THEN 0 ELSE i[p]]
    IN  Tensor(shape, LAMBDA i : a.at[pick(i, a.shape)] - b.at[pick(i, b.shape)])

\* Mutant of abs: the sign is kept.
abs_keeps_sign(t) == t

\* K.abs(t)
abs(t) == Tensor(t.shape, LAMBDA i : IF t.at[i] < 0 THEN -t.at[i] ELSE t.at[i])

\* K.sum(t, axis=axis) of a tensor of numbers.
sum(t, axis) ==
    Tensor(Without(t.shape, axis + 1),
           LAMBDA i : SumTo([j \in 0 .. (t.shape[axis + 1] - 1) |->
                                t.at[With(i, axis + 1, j)]],
                            0, t.shape[axis + 1] - 1))

\* K.exp(-t): each distance d becomes the kernelized value exp(-d).
exp_neg(t) == Tensor(t.shape, LAMBDA i : SetToBag({t.at[i]}))

\* K.sum(t, axis=axis) of a tensor of kernelized values.
sum_exp(t, axis) ==
    Tensor(Without(t.shape, axis + 1),
           LAMBDA i : BagSumTo([j \in 0 .. (t.shape[axis + 1] - 1) |->
                                   t.at[With(i, axis + 1, j)]],
                               0, t.shape[axis + 1] - 1))

-----------------------------------------------------------------------------
(* MinibatchDiscrimination.call and compute_output_shape. *)

activation_of(inp, w, k, c) == reshape(dot(inp, w), k, c)

diffs_of(activation) ==
    subtract(expand_dims(activation, 3),
             expand_dims(permute_dimensions(activation, <<1, 2, 0>>), 0))

abs_diffs_of(diffs) == sum(abs(diffs), 2)

minibatch_features_of(abs_diffs) == sum_exp(exp_neg(abs_diffs), 2)

call(inp, w, k, c) ==
    minibatch_features_of(abs_diffs_of(diffs_of(activation_of(inp, w, k, c))))

\* Mutant of compute_output_shape: the shape of the concatenation variant.
compute_output_shape_concatenated(input_shape, k) ==
    <<input_shape[1], input_shape[2] + k>>

compute_output_shape(input_shape, k) == <<input_shape[1], k>>

-----------------------------------------------------------------------------
(* The forward computation on its own: every layer whose weights exist and *)
(* every batch that fits them, the scenario of the specification's         *)
(* section 8 among them.                                                   *)

\* The shapes (K, D, C) of ProjectionWeights within the bounds.
WShapes ==
    {s \in (1 .. MaxWSize) \X (1 .. MaxWSize) \X (1 .. MaxWSize) :
        s[1] * s[2] * s[3] <= MaxWSize}

\* The shapes (N, D) of InputBatch within the bounds.
XShapes ==
    {s \in (1 .. MaxBatch) \X (1 .. MaxXSize) : s[1] * s[2] <= MaxXSize}

Tensors(shape, vals) == {[shape |-> shape, at |-> f] : f \in [Idx(shape) -> vals]}

ScenarioX ==
    [shape |-> <<2, 3>>,
     at |-> (<<0, 0>> :> 1 @@ <<0, 1>> :> 0 @@ <<0, 2>> :> 0 @@
             <<1, 0>> :> 3 @@ <<1, 1>> :> 0 @@ <<1, 2>> :> 0)]

ScenarioW ==
    [shape |-> <<1, 3, 1>>,
     at |-> (<<0, 0, 0>> :> 1 @@ <<0, 1, 0>> :> 0 @@ <<0, 2, 0>> :> 0)]

\* What a forward invocation gave: the tensor returned, or the error raised.
Returned(t) == [raised |-> "", value |-> <<t>>]
Raised(e) == [raised |-> e, value |-> <<>>]

ClipIdle == layers = <<>> /\ before = None /\ clip_value = 0
SplitIdle == dataset = None /\ timesteps = 0 /\ stack = <<>> /\ returned = None

InitCall ==
    /\ \E ws \in WShapes, xs \in XShapes :
          /\ xs[2] = ws[2]
          /\ \E w \in Tensors(ws, WVals) : W = Some(w)
          /\ \E b \in Tensors(xs, XVals) : x = Some(b)
    /\ nb_kernels = W[1].shape[1]
    /\ kernel_dim = W[1].shape[3]
    /\ input_spec = Some(W[1].shape[2])
    /\ phase = "built"
    /\ input_dim = None /\ W_regularizer = None /\ W_constraint = None
    /\ activity_regularizer = None
    /\ output = None /\ restored = None
    /\ ClipIdle /\ SplitIdle

\* One forward pass of the built layer on the batch.
Call ==
    /\ phase = "built"
    /\ output = None
    /\ output' = Some(Returned(call(x[1], W[1], nb_kernels, kernel_dim)))
    /\ UNCHANGED <<phase, nb_kernels, kernel_dim, input_dim, W_regularizer,
                   W_constraint, activity_regularizer, input_spec, W, x, restored>>
    /\ UNCHANGED <<clipVars, splitVars>>

SpecCall == InitCall /\ [][Call]_vars

-----------------------------------------------------------------------------
(* Properties of the forward computation. *)

\* The batch, the weights and the features of a forward pass that returned.
HasFeatures == output # None /\ output[1].raised = ""
Features == output[1].value[1]
BatchSize == x[1].shape[1]
FeatureDim == x[1].shape[2]

\* a[n,k,c] = sum over d of x[n,d] * W[k,d,c]
ProjectedAt(n, k, c) ==
    SumTo([d \in 0 .. (FeatureDim - 1) |-> x[1].at[<<n, d>>] * W[1].at[<<k, d, c>>]],
          0, FeatureDim - 1)

\* dist[n,m,k] = sum over c of |a[n,k,c] - a[m,k,c]|
DistAt(n, m, k) ==
    SumTo([c \in 0 .. (kernel_dim - 1) |->
              LET d == ProjectedAt(n, k, c) - ProjectedAt(m, k, c)
              IN  IF d < 0 THEN -d ELSE d],
          0, kernel_dim - 1)

\* C1: call returns, for every sample n and kernel k, the sum over every m
\* of the batch (m = n included) of exp(-dist[n,m,k]), dist the L1 distance
\* of the projections of n and m by kernel k: the value exp(-v) occurs in the
\* sum as often as there are samples m at distance v from n.
C1_FeaturesAreKernelSums ==
    HasFeatures =>
        /\ DOMAIN Features.at = Idx(<<BatchSize, nb_kernels>>)
        /\ \A n \in 0 .. (BatchSize - 1), k \in 0 .. (nb_kernels - 1) :
              LET f == Features.at[<<n, k>>]
              IN  /\ BagToSet(f) = {DistAt(n, m, k) : m \in 0 .. (BatchSize - 1)}
                  /\ \A v \in BagToSet(f) :
                        CopiesIn(v, f) =
                            Cardinality({m \in 0 .. (BatchSize - 1) : DistAt(n, m, k) = v})

\* The scenario of section 8 has been computed: both features are
\* 1 + exp(-2).
C1_ScenarioComputed ==
    /\ HasFeatures
    /\ x[1] = ScenarioX
    /\ W[1] = ScenarioW
    /\ Features.at[<<0, 0>>] = (0 :> 1 @@ 2 :> 1)
    /\ Features.at[<<1, 0>>] = (0 :> 1 @@ 2 :> 1)

C5_SingleSampleIsOne ==
    (HasFeatures /\ BatchSize = 1) =>
        \A k \in 0 .. (nb_kernels - 1) : Features.at[<<0, k>>] = SetToBag({0})

\* A batch of one non-zero sample has passed through two kernels whose
\* projections of it are not zero.
C5_SingleSampleComputed ==
    /\ HasFeatures
    /\ BatchSize = 1
    /\ nb_kernels = 2
    /\ \A k \in 0 .. 1 : ProjectedAt(0, k, 0) # 0
    /\ \A k \in 0 .. 1 : Features.at[<<0, k>>] = SetToBag({0})

-----------------------------------------------------------------------------
(* Regularizers and constraints, as __init__ and get_config handle them.   *)
(* An identifier is None, a live object, a serialized object (the          *)
(* dictionary with class_name and config that the framework's get          *)
(* rebuilds an object from) or the bare parameter dictionary that an       *)
(* object's own get_config() returns.                                      *)

Obj(cls, p) == [kind |-> "object", class_name |-> cls, param |-> p]
Serialized(cls, p) == [kind |-> "serialized", class_name |-> cls, param |-> p]

\* obj.get_config(): the object's parameters, without its class name.
object_get_config(obj) == [kind |-> "params", class_name |-> "", param |-> obj.param]

\* regularizers.get(identifier) and constraints.get(identifier).
identifier_get(id) ==
    IF id = None THEN [raised |-> FALSE, value |-> None]
    ELSE IF id[1].kind = "object" THEN [raised |-> FALSE, value |-> id]
    ELSE IF id[1].kind = "serialized"
         THEN [raised |-> FALSE, value |-> Some(Obj(id[1].class_name, id[1].param))]
    ELSE [raised |-> TRUE, value |-> None]

\* Mutant of init_raises: the constructor rejects non-positive sizes.
init_validates(k, c) == k <= 0 \/ c <= 0

\* Whether __init__ rejects nb_kernels = k, kernel_dim = c: it checks neither.
init_raises(k, c) == FALSE

\* MinibatchDiscrimination.__init__: the attributes it sets, and whether it
\* raised.
init(k, c, reg, act, con, d) ==
    LET r == identifier_get(reg)
        a == identifier_get(act)
        n == identifier_get(con)
    IN  [raised |-> init_raises(k, c) \/ r.raised \/ a.raised \/ n.raised,
         nb_kernels |-> k,
         kernel_dim |-> c,
         input_dim |-> d,
         W_regularizer |-> r.value,
         activity_regularizer |-> a.value,
         W_constraint |-> n.value]

\* MinibatchDiscrimination.get_config, of the layer in the current state.
get_config ==
    [nb_kernels |-> nb_kernels,
     kernel_dim |-> kernel_dim,
     W_regularizer |->
         IF W_regularizer # None THEN Some(object_get_config(W_regularizer[1])) ELSE None,
     activity_regularizer |->
         IF activity_regularizer # None
         THEN Some(object_get_config(activity_regularizer[1])) ELSE None,
     W_constraint |->
         IF W_constraint # None THEN Some(object_get_config(W_constraint[1])) ELSE None,
     input_dim |-> input_dim]

\* The layer constructed from a configuration dictionary.
from_config(config) ==
    init(config.nb_kernels, config.kernel_dim, config.W_regularizer,
         config.activity_regularizer, config.W_constraint, config.input_dim)

-----------------------------------------------------------------------------
(* The life of one layer: construction, forward invocations (the first     *)
(* builds the layer), updates of the weights by the optimizer, and         *)
(* clip_weights on the model that holds the layer.                         *)

\* Arguments of the constructor that are explored.
KernelArgs == {-1, 0, 1, 2}
KernelDimArgs == {-1, 0, 1, 2}
InputDimArgs == {None, Some(1), Some(2)}
RegularizerArgs == {None, Some(Obj("L1L2", 1))}
ConstraintArgs == {None, Some(Obj("NonNeg", 0))}
\* Values the initializer gives an element of the weights.
InitVals == {-1, 1}
\* Values an element of a batch fed to the layer takes.
BatchVals == {1}
\* Largest clip_value passed to clip_weights.
MaxClip == 1

Batches == UNION {Tensors(s, BatchVals) : s \in XShapes}

InitLayer ==
    /\ phase = "new"
    /\ nb_kernels = 0 /\ kernel_dim = 0
    /\ input_dim = None /\ W_regularizer = None /\ W_constraint = None
    /\ activity_regularizer = None
    /\ input_spec = None /\ W = None
    /\ x = None /\ output = None /\ restored = None
    /\ ClipIdle /\ SplitIdle

\* MinibatchDiscrimination(k, c, W_regularizer=reg, activity_regularizer=act,
\* W_constraint=con, input_dim=d).  input_dim is stored and handed to the
\* base class as the input_shape keyword; neither build nor call reads it.
\* input_spec starts as InputSpec(ndim=2): any feature dimension.
Construct(k, c, reg, act, con, d) ==
    /\ phase = "new"
    /\ LET r == init(k, c, reg, act, con, d)
       IN  /\ phase' = IF r.raised THEN "failed" ELSE "constructed"
           /\ nb_kernels' = r.nb_kernels
           /\ kernel_dim' = r.kernel_dim
           /\ input_dim' = r.input_dim
           /\ W_regularizer' = r.W_regularizer
           /\ activity_regularizer' = r.activity_regularizer
           /\ W_constraint' = r.W_constraint
    /\ input_spec' = None
    /\ UNCHANGED <<W, x, output, restored>>
    /\ UNCHANGED <<clipVars, splitVars>>

\* Mutant of NeedsBuild: every forward invocation builds the layer again.
NeedsBuildAlways == TRUE

\* Whether a forward invocation has to build the layer first.
NeedsBuild == phase # "built"

\* Whether add_weight fails for this shape: an axis of negative length.
add_weight_raises(shape) == \E a \in DOMAIN shape : shape[a] < 0

\* What call gives.  K.dot fails when the feature dimension of the batch is
\* not the second axis of the weights, and with no kernel or no kernel
\* dimension the reshape to (-1, K, C) of a tensor without elements fails.
call_result(b, w, k, c) ==
    IF b.shape[2] # w.shape[2] \/ k * c = 0
    THEN Raised("ValueError")
    ELSE Returned(call(b, w, k, c))

\* Mutant of spec_of_build: build leaves input_spec as the constructor set it.
spec_not_narrowed(d) == None

\* The input_spec build sets: batches of feature dimension d.
spec_of_build(d) == Some(d)

\* A forward invocation of the layer on batch b: the input is checked against
\* input_spec, the layer is built if it has to be, and call runs.
Forward(b) ==
    /\ phase \in {"constructed", "built"}
    /\ x' = Some(b)
    /\ IF input_spec # None /\ input_spec[1] # b.shape[2]
       THEN /\ output' = Some(Raised("ShapeError"))
            /\ UNCHANGED <<phase, input_spec, W>>
       ELSE IF NeedsBuild
       THEN LET shape == <<nb_kernels, b.shape[2], kernel_dim>>
            IN  /\ input_spec' = spec_of_build(b.shape[2])
                /\ IF add_weight_raises(shape)
                   THEN /\ output' = Some(Raised("ValueError"))
                        /\ UNCHANGED <<phase, W>>
                   ELSE /\ Product(shape) <= MaxWSize
                        /\ phase' = "built"
                        /\ \E w \in Tensors(shape, InitVals) :
                              /\ W' = Some(w)
                              /\ output' = Some(call_result(b, w, nb_kernels, kernel_dim))
       ELSE /\ output' = Some(call_result(b, W[1], nb_kernels, kernel_dim))
            /\ UNCHANGED <<phase, input_spec, W>>
    /\ UNCHANGED <<nb_kernels, kernel_dim, input_dim, W_regularizer, W_constraint,
                   activity_regularizer, restored>>
    /\ UNCHANGED <<clipVars, splitVars>>

\* The constraint registered with the weights, applied to their new value.
constrained(con, t) ==
    IF con = None THEN t
    ELSE Tensor(t.shape, LAMBDA i : IF t.at[i] < 0 THEN 0 ELSE t.at[i])

\* One update of the weights by the optimizer: element i moves by delta and
\* the constraint, if any, is applied.
OptimizerUpdate(i, delta) ==
    /\ phase = "built"
    /\ i \in DOMAIN W[1].at
    /\ W[1].at[i] + delta \in WVals
    /\ W' = Some(constrained(W_constraint,
                             [W[1] EXCEPT !.at[i] = W[1].at[i] + delta]))
    /\ UNCHANGED <<phase, nb_kernels, kernel_dim, input_dim, W_regularizer,
                   W_constraint, activity_regularizer, input_spec, x, output,
                   restored>>
    /\ UNCHANGED <<clipVars, splitVars>>

-----------------------------------------------------------------------------
(* clip_weights. *)

minimum(a, b) == IF a < b THEN a ELSE b
maximum(a, b) == IF a > b THEN a ELSE b

\* Mutant of np_clip: only the upper limit is applied.
np_clip_upper_only(t, lo, hi) == Tensor(t.shape, LAMBDA i : minimum(t.at[i], hi))

\* np.clip(t, lo, hi)
np_clip(t, lo, hi) == Tensor(t.shape, LAMBDA i : minimum(maximum(t.at[i], lo), hi))

\* clip_weights(model, c): the weights of model.layers afterwards, ls being
\* the list get_weights() returns for each layer before.
clip_weights(ls, c) ==
    [l \in DOMAIN ls |-> [j \in DOMAIN ls[l] |-> np_clip(ls[l][j], -c, c)]]

\* clip_weights on the model whose only layer is the layer: get_weights() is
\* [W] once the layer is built and [] before.
ClipLayer(c) ==
    /\ phase \in {"constructed", "built"}
    /\ LET ws == IF W = None THEN <<>> ELSE <<W[1]>>
           new == clip_weights(<<ws>>, c)
       IN  W' = IF W = None THEN None ELSE Some(new[1][1])
    /\ UNCHANGED <<phase, nb_kernels, kernel_dim, input_dim, W_regularizer,
                   W_constraint, activity_regularizer, input_spec, x, output,
                   restored>>
    /\ UNCHANGED <<clipVars, splitVars>>

NextLayer ==
    \/ \E k \in KernelArgs, c \in KernelDimArgs, con \in ConstraintArgs,
          d \in InputDimArgs : Construct(k, c, None, None, con, d)
    \/ \E b \in Batches : Forward(b)
    \/ \E i \in Idx(<<nb_kernels, MaxWSize, kernel_dim>>), delta \in {-1, 1} :
          OptimizerUpdate(i, delta)
    \/ \E c \in 0 .. MaxClip : ClipLayer(c)

Spec == InitLayer /\ [][NextLayer]_vars

-----------------------------------------------------------------------------
(* Persisting and restoring the configuration. *)

\* The layer is rebuilt from its own get_config().
Restore ==
    /\ phase \in {"constructed", "built"}
    /\ restored' = Some(from_config(get_config))
    /\ UNCHANGED <<phase, nb_kernels, kernel_dim, input_dim, W_regularizer,
                   W_constraint, activity_regularizer, input_spec, W, x, output>>
    /\ UNCHANGED <<clipVars, splitVars>>

NextConfig ==
    \/ \E k \in KernelArgs \cap {1, 2}, c \in KernelDimArgs \cap {1, 2},
          reg \in RegularizerArgs,
          act \in RegularizerArgs, con \in ConstraintArgs, d \in InputDimArgs :
          Construct(k, c, reg, act, con, d)
    \/ \E b \in Batches : Forward(b)
    \/ Restore

SpecConfig == InitLayer /\ [][NextConfig]_vars

-----------------------------------------------------------------------------
(* clip_weights on models of several layers. *)

\* Most layers of a model, and most elements of all its weights together.
MaxLayers == 2
MaxModelSize == 3
\* Shapes and values of the weight arrays.
ClipShapes == {<<1>>, <<1, 2>>}
ClipVals == {-2, 0, 1, 2}

RECURSIVE SizeOfArrays(_)
SizeOfArrays(ws) ==
    IF ws = <<>> THEN 0 ELSE Product(Head(ws).shape) + SizeOfArrays(Tail(ws))

RECURSIVE SizeOfLayers(_)
SizeOfLayers(ls) ==
    IF ls = <<>> THEN 0 ELSE SizeOfArrays(Head(ls)) + SizeOfLayers(Tail(ls))

LayerIdle ==
    /\ phase = "new"
    /\ nb_kernels = 0 /\ kernel_dim = 0
    /\ input_dim = None /\ W_regularizer = None /\ W_constraint = None
    /\ activity_regularizer = None
    /\ input_spec = None /\ W = None
    /\ x = None /\ output = None /\ restored = None

InitClip == LayerIdle /\ ClipIdle /\ SplitIdle

\* model.add of a layer that has no weights yet.
AddLayer ==
    /\ before = None
    /\ Len(layers) < MaxLayers
    /\ layers' = Append(layers, <<>>)
    /\ UNCHANGED <<before, clip_value, layerVars, splitVars>>

\* The last layer gains the weight array t.
AddWeight(t) ==
    /\ before = None
    /\ layers # <<>>
    /\ SizeOfLayers(layers) + Product(t.shape) <= MaxModelSize
    /\ layers' = [layers EXCEPT ![Len(layers)] = Append(@, t)]
    /\ UNCHANGED <<before, clip_value, layerVars, splitVars>>

\* clip_weights(model, c)
ClipWeights(c) ==
    /\ layers # <<>>
    /\ before' = Some(layers)
    /\ clip_value' = c
    /\ layers' = clip_weights(layers, c)
    /\ UNCHANGED <<layerVars, splitVars>>

NextClip ==
    \/ AddLayer
    \/ \E s \in ClipShapes : \E t \in Tensors(s, ClipVals) : AddWeight(t)
    \/ \E c \in -1 .. MaxClip : ClipWeights(c)

SpecClip == InitClip /\ [][NextClip]_vars

-----------------------------------------------------------------------------
(* split_data, one step of the interpreter at a time.  A frame holds the   *)
(* call's dataset, where the call is ("enter": at its first line, "called":*)
(* waiting for the recursive call, "return": about to return), the columns *)
(* it split off and its return value.  A return value is <<"None">> or     *)
(* <<"array", a>>.                                                         *)

\* Most rows and columns of a dataset, and the depth of recursion at which
\* the interpreter gives up with a RecursionError.
MaxRows == 2
MaxCols == 6
MaxDepth == 8
\* The timesteps arguments that are explored.
TimestepArgs == -2 .. (MaxCols + 1)

\* The dataset of R rows and D columns whose elements are all different.
Labelled(R, D) == Tensor(<<R, D>>, LAMBDA i : i[1] * D + i[2])

\* Where Python puts the bound i of a slice of a sequence of n elements.
slice_bound(i, n) == IF i < 0 THEN maximum(i + n, 0) ELSE minimum(i, n)

\* a[:, lo:hi]
columns(a, lo, hi) ==
    LET from == slice_bound(lo, a.shape[2])
        to == slice_bound(hi, a.shape[2])
    IN  Tensor(<<a.shape[1], maximum(to - from, 0)>>,
               LAMBDA i : a.at[<<i[1], from + i[2]>>])

\* Mutant of hsplit: the second part starts one column late.
hsplit_skips_column(a, t) ==
    <<columns(a, 0, t), columns(a, t + 1, a.shape[2])>>

\* np.hsplit(a, [t]): a[:, 0:t] and a[:, t:D]
hsplit(a, t) == <<columns(a, 0, t), columns(a, t, a.shape[2])>>

\* np.vstack([a, b]) of arrays of as many columns
vstack(a, b) ==
    Tensor(<<a.shape[1] + b.shape[1], a.shape[2]>>,
           LAMBDA i : IF i[1] < a.shape[1] THEN a.at[i]
                      ELSE b.at[<<i[1] - a.shape[1], i[2]>>])

Frame(a) == [data |-> a, pc |-> "enter", splitted |-> None, result |-> None]

Top == stack[Len(stack)]

InitSplit ==
    /\ LayerIdle /\ ClipIdle
    /\ \E R \in 0 .. MaxRows, D \in 0 .. MaxCols : dataset = Some(Labelled(R, D))
    /\ timesteps \in TimestepArgs
    /\ stack = <<Frame(dataset[1])>>
    /\ returned = None

\* if D < timesteps: return None / elif D == timesteps: return dataset
SplitBase ==
    /\ stack # <<>>
    /\ Top.pc = "enter"
    /\ Top.data.shape[2] <= timesteps
    /\ stack' = [stack EXCEPT ![Len(stack)] =
                    [@ EXCEPT !.pc = "return",
                              !.result = IF Top.data.shape[2] < timesteps
                                         THEN <<"None">>
                                         ELSE <<"array", Top.data>>]]
    /\ UNCHANGED <<dataset, timesteps, returned, layerVars, clipVars>>

\* else: hsplit, and the recursive call on the remaining columns.
SplitRecurse ==
    /\ stack # <<>>
    /\ Top.pc = "enter"
    /\ Top.data.shape[2] > timesteps
    /\ LET parts == hsplit(Top.data, timesteps)
       IN  IF Len(stack) < MaxDepth
           THEN /\ stack' = Append([stack EXCEPT ![Len(stack)] =
                                       [@ EXCEPT !.pc = "called",
                                                 !.splitted = Some(parts[1])]],
                                   Frame(parts[2]))
                /\ UNCHANGED returned
           ELSE /\ stack' = <<>>
                /\ returned' = <<"RecursionError">>
    /\ UNCHANGED <<dataset, timesteps, layerVars, clipVars>>

\* A recursive call returns: its caller stacks its own columns on what it
\* got, or returns them alone when it got None.
SplitReturn ==
    /\ Len(stack) > 1
    /\ Top.pc = "return"
    /\ LET caller == stack[Len(stack) - 1]
           got == Top.result
       IN  stack' = [SubSeq(stack, 1, Len(stack) - 1) EXCEPT ![Len(stack) - 1] =
                        [@ EXCEPT !.pc = "return",
                                  !.result =
                                      IF got[1] # "None"
                                      THEN <<"array", vstack(caller.splitted[1], got[2])>>
                                      ELSE <<"array", caller.splitted[1]>>]]
    /\ UNCHANGED <<dataset, timesteps, returned, layerVars, clipVars>>

\* The outermost call returns to load_splitted_dataset.
SplitFinish ==
    /\ Len(stack) = 1
    /\ Top.pc = "return"
    /\ returned' = Top.result
    /\ stack' = <<>>
    /\ UNCHANGED <<dataset, timesteps, layerVars, clipVars>>

NextSplit == SplitBase \/ SplitRecurse \/ SplitReturn \/ SplitFinish

SpecSplit == InitSplit /\ [][NextSplit]_vars

-----------------------------------------------------------------------------
(* Properties of the layer's life. *)

NonPositive == nb_kernels <= 0 \/ kernel_dim <= 0

\* C2 as claimed: constructing a layer with num_kernels <= 0 or
\* kernel_dim <= 0 fails at construction, no usable layer is produced and no
\* ProjectionWeights are ever created for it.
C2_NonPositiveConstructionFails ==
    (phase # "new" /\ NonPositive) => (phase = "failed" /\ W = None)

\* C2 as amended: constructing a layer with num_kernels <= 0 or
\* kernel_dim <= 0 does not fail, the constructor checks neither value and
\* returns a layer that holds them; no ProjectionWeights exist before the
\* layer is built, a build with a negative value fails, and the weights a
\* build creates for such a layer have no elements.
C2_NonPositiveIsConstructed ==
    /\ phase = "constructed" => W = None
    /\ (phase # "new" /\ NonPositive) =>
          /\ phase \in {"constructed", "built"}
          /\ phase = "built" => (nb_kernels >= 0 /\ kernel_dim >= 0)
          /\ W # None => Product(W[1].shape) = 0

\* A layer with a negative number of kernels was constructed, and its first
\* forward invocation failed in build.
C2_NegativeKernelsConstructed ==
    /\ phase = "constructed"
    /\ nb_kernels = -1
    /\ kernel_dim = 2
    /\ W = None
    /\ output = Some(Raised("ValueError"))

\* The dimension C3 as claimed speaks of: the one given at construction, or
\* else the one the build inferred.
ClaimedDim == IF input_dim # None THEN input_dim ELSE input_spec

\* C3 as claimed: once the input dimension D is configured (input_dim at
\* construction) or inferred (first build), a forward invocation on a batch
\* whose feature dimension is not D fails and produces no OutputFeatures.
C3_MismatchWithConfiguredDimFails ==
    (x # None /\ ClaimedDim # None /\ x[1].shape[2] # ClaimedDim[1]) =>
        (output # None /\ output[1].raised # "" /\ output[1].value = None)

\* A forward invocation of the built layer on a batch whose feature
\* dimension is not the second axis of the weights.
MismatchedForward(b) ==
    phase = "built" /\ b.shape[2] # W[1].shape[2] /\ Forward(b)

\* C3 as amended: once the layer is built, D is the feature dimension of the
\* batch it was built on (an input_dim given at construction is not compared
\* with it), and every forward invocation on a batch whose feature dimension
\* is not D fails with a ShapeError, returns no features and leaves
\* ProjectionWeights as they were.
C3_MismatchWithBuiltDimFails ==
    /\ [](phase = "built" =>
             /\ input_spec = Some(W[1].shape[2])
             /\ (x # None /\ x[1].shape[2] # W[1].shape[2]) =>
                   output = Some(Raised("ShapeError")))
    /\ [][\A b \in Batches :
             MismatchedForward(b) =>
                 /\ output' = Some(Raised("ShapeError"))
                 /\ W' = W
                 /\ phase' = phase]_vars

\* A layer constructed with input_dim = 2 was built on batches of one
\* feature, and then refused a batch of two features.
C3_MismatchRefused ==
    /\ phase = "built"
    /\ input_dim = Some(2)
    /\ W[1].shape = <<2, 1, 2>>
    /\ x[1].shape[2] = 2
    /\ output = Some(Raised("ShapeError"))

\* C6: ProjectionWeights are created by the build, with shape (K, D, C);
\* from then on every step (forward invocation, optimizer update with its
\* constraint, clip_weights) leaves them in existence and of that shape, and
\* a forward invocation leaves their values as they are.
C6_WeightsShapeIsFixed ==
    /\ [](/\ W # None <=> phase = "built"
          /\ W # None =>
                /\ W[1].shape = <<nb_kernels, input_spec[1], kernel_dim>>
                /\ DOMAIN W[1].at = Idx(W[1].shape))
    /\ [][W # None =>
             /\ W' # None
             /\ W'[1].shape = W[1].shape
             /\ (\E b \in Batches : Forward(b)) => W' = W]_vars

\* Weights of shape (2, 2, 1) that an update or a clip has changed (the
\* initializer gives no 0), after a forward invocation that returned.
C6_UpdatedWeights ==
    /\ phase = "built"
    /\ W[1].shape = <<2, 2, 1>>
    /\ W[1].at[<<0, 0, 0>>] = 0
    /\ W[1].at[<<1, 1, 0>>] = 1
    /\ HasFeatures

-----------------------------------------------------------------------------
(* Properties of get_config. *)

\* The configuration of a regularizer or constraint, None for None.
ConfigOf(obj) == IF obj = None THEN None ELSE Some(object_get_config(obj[1]))

\* C7: the layer constructed from the dictionary get_config returns has the
\* five configuration values of the original: num_kernels, kernel_dim, the
\* configurations of the weight regularizer and of the weight constraint,
\* and input_dim.
C7_ConfigRoundTrips ==
    restored # None =>
        /\ ~restored[1].raised
        /\ restored[1].nb_kernels = nb_kernels
        /\ restored[1].kernel_dim = kernel_dim
        /\ ConfigOf(restored[1].W_regularizer) = ConfigOf(W_regularizer)
        /\ ConfigOf(restored[1].W_constraint) = ConfigOf(W_constraint)
        /\ restored[1].input_dim = input_dim

-----------------------------------------------------------------------------
(* Properties of clip_weights. *)

\* max(-c, min(c, w))
Clamped(w, c) == IF w > c THEN c ELSE IF w < -c THEN -c ELSE w

\* C8: after clip_weights(model, c) with c >= 0 every weight of every layer
\* is max(-c, min(c, w_before)): it lies in [-c, c], it is unchanged if it
\* lay there before, each layer has as many arrays of the same shapes as
\* before, and clipping again with the same c changes nothing.
C8_WeightsAreClamped ==
    (before # None /\ clip_value >= 0) =>
        /\ Len(layers) = Len(before[1])
        /\ \A l \in DOMAIN layers :
              /\ Len(layers[l]) = Len(before[1][l])
              /\ \A j \in DOMAIN layers[l] :
                    LET new == layers[l][j]
                        old == before[1][l][j]
                    IN  /\ new.shape = old.shape
                        /\ DOMAIN new.at = DOMAIN old.at
                        /\ \A i \in DOMAIN old.at :
                              /\ new.at[i] = Clamped(old.at[i], clip_value)
                              /\ -clip_value <= new.at[i]
                              /\ new.at[i] <= clip_value
                              /\ (-clip_value <= old.at[i] /\ old.at[i] <= clip_value)
                                    => new.at[i] = old.at[i]
        /\ clip_weights(layers, clip_value) = layers

\* A model of two layers was clipped at 1: a weight -2 of the first layer
\* became -1, a weight 2 of the second became 1 and a weight 0 stayed.
C8_TwoLayersClipped ==
    /\ before # None
    /\ clip_value = 1
    /\ Len(layers) = 2
    /\ Len(layers[1]) = 1 /\ Len(layers[2]) = 1
    /\ before[1][1][1].shape = <<1>>
    /\ before[1][1][1].at[<<0>>] = -2 /\ layers[1][1].at[<<0>>] = -1
    /\ before[1][2][1].shape = <<1, 2>>
    /\ before[1][2][1].at[<<0, 0>>] = 2 /\ layers[2][1].at[<<0, 0>>] = 1
    /\ before[1][2][1].at[<<0, 1>>] = 0 /\ layers[2][1].at[<<0, 1>>] = 0

-----------------------------------------------------------------------------
(* Properties of split_data. *)

Rows == dataset[1].shape[1]
Cols == dataset[1].shape[2]

\* C9: for a dataset of R rows and D columns and timesteps >= 1, split_data
\* returns None when D < timesteps, and otherwise an array of
\* R * floor(D / timesteps) rows and timesteps columns whose rows
\* j*R .. j*R + R - 1 are columns j*timesteps .. (j+1)*timesteps - 1 of the
\* rows of the dataset in their order, the last D mod timesteps columns
\* being dropped; the dataset is as it was.
C9_SplitLayout ==
    (returned # None /\ timesteps >= 1) =>
        /\ dataset[1] = Labelled(Rows, Cols)
        /\ IF Cols < timesteps
           THEN returned = <<"None">>
           ELSE /\ returned[1] = "array"
                /\ returned[2].shape = <<Rows * (Cols \div timesteps), timesteps>>
                /\ DOMAIN returned[2].at = Idx(returned[2].shape)
                /\ \A j \in 0 .. ((Cols \div timesteps) - 1), r \in 0 .. (Rows - 1),
                      c \in 0 .. (timesteps - 1) :
                      returned[2].at[<<j * Rows + r, c>>]
                          = dataset[1].at[<<r, j * timesteps + c>>]

\* A dataset of 2 rows and 5 columns was split by 2 into 4 rows, its last
\* column dropped.
C9_FiveByTwoSplit ==
    /\ returned # None
    /\ Rows = 2 /\ Cols = 5 /\ timesteps = 2
    /\ returned[1] = "array"
    /\ returned[2].shape = <<4, 2>>
    /\ returned[2].at[<<3, 1>>] = dataset[1].at[<<1, 3>>]

\* Every frame but the outermost holds fewer columns than its caller's.
EveryCallShrinks ==
    \A f \in 2 .. Len(stack) :
        stack[f].data.shape[2] < stack[f - 1].data.shape[2]

\* C10 as claimed: for every timesteps, 0 and negative values included, each
\* recursive call of split_data is made on an array of strictly fewer
\* columns than its caller's, so that the recursion reaches a base case and
\* the call returns.
C10_EveryTimestepsTerminates ==
    /\ EveryCallShrinks
    /\ returned # <<"RecursionError">>

\* What is left to do: strictly smaller after every step of a call with
\* timesteps >= 1.
Variant ==
    IF stack = <<>> THEN 0
    ELSE IF Top.pc = "enter" THEN Len(stack) + 2 * Top.data.shape[2] + 1
    ELSE Len(stack)

\* C10 for the arguments it holds on: for every timesteps >= 1 each recursive call of
\* split_data is made on an array of strictly fewer columns than its
\* caller's, the recursion is never deeper than floor(D / timesteps) + 1
\* calls, a call that has not returned can take a step, every step brings
\* it nearer to its return, and it returns without a RecursionError.
C10_PositiveTimestepsTerminates ==
    /\ [](timesteps >= 1 =>
             /\ EveryCallShrinks
             /\ Len(stack) <= (Cols \div timesteps) + 1
             /\ returned # <<"RecursionError">>
             /\ returned = None => ENABLED NextSplit)
    /\ [][timesteps >= 1 => Variant' < Variant]_vars

\* A call with timesteps = 1 on 6 columns is 6 calls deep, the innermost on
\* the last column.
C10_DeepestRecursion ==
    /\ timesteps = 1
    /\ Cols = 6
    /\ Len(stack) = 6
    /\ Top.data.shape[2] = 1
    /\ Top.pc = "return"

====
